---------------------------- MODULE Spec2Model ----------------------------
(***************************************************************************)
(* A model of src/world_grid.py: the three table-building functions        *)
(* world_grid, world_grid_eroi and world_rooftop_pv.                       *)
(*                                                                         *)
(* A pandas DataFrame is a function from its index labels to rows, a row   *)
(* is a function from column names to values, and each source statement    *)
(* is one step: Exec(line, t, mp) is the table that the statement at that  *)
(* source line makes of table t under the constants mp (model_params).     *)
(*                                                                         *)
(* Numbers are exact rationals [n, d] extended with the IEEE-754 values    *)
(* NaN and +-inf, so that a null field, a division by zero and the         *)
(* comparisons with NaN behave as they do in a float column.               *)
(***************************************************************************)
EXTENDS Integers, Sequences, FiniteSets, TLC

VARIABLES
    raw,            \* the cell table read from data/wind_solar_0_75
    rooftop_area,   \* the country table read from data/rooftop_area
    model_params,   \* the constants of module model_params
    entry,          \* the function called: "world_grid_eroi" | "world_rooftop_pv"
    pc,             \* index in the entry's statement list of the next statement
    status,         \* "running" | "returned" | "raised"
    df,             \* world_grid's / world_grid_eroi's df
    rt,             \* world_rooftop_pv's df (indexed by Country)
    mean_ghi,       \* world_rooftop_pv's mean_ghi Series
    pre_derating,   \* history: df as it was when line 57 was about to run
    reads           \* history: columns read so far to derive another column

vars == <<raw, rooftop_area, model_params, entry, pc, status, df, rt, mean_ghi,
          pre_derating, reads>>

---------------------------------------------------------------------------
(* Float arithmetic: exact rationals with NaN and infinities.              *)

RECURSIVE GCD(_, _)
GCD(a, b) == IF b = 0 THEN a ELSE GCD(b, a % b)

AbsInt(n) == IF n < 0 THEN -n ELSE n

SignInt(n) == IF n < 0 THEN -1 ELSE IF n > 0 THEN 1 ELSE 0

NaN == [n |-> 0, d |-> 0]

PosInf == [n |-> 1, d |-> 0]

NegInf == [n |-> -1, d |-> 0]

\* The float n/d (d > 0), in lowest terms.  The operations below cancel common
\* factors before they multiply, which keeps the products within 32 bits and
\* leaves the values what they are.
Q(n, d) == LET g == GCD(AbsInt(n), d) IN [n |-> n \div g, d |-> d \div g]

Num(n) == [n |-> n, d |-> 1]

IsNaN(x) == x.d = 0 /\ x.n = 0

IsInf(x) == x.d = 0 /\ x.n # 0

IsFinite(x) == x.d > 0

IsZero(x) == x.d > 0 /\ x.n = 0

Neg(x) == [n |-> -(x.n), d |-> x.d]

Abs(x) == [n |-> AbsInt(x.n), d |-> x.d]

Add(x, y) ==
    IF IsNaN(x) \/ IsNaN(y) THEN NaN
    ELSE IF IsInf(x) /\ IsInf(y) THEN (IF x = y THEN x ELSE NaN)
    ELSE IF IsInf(x) THEN x
    ELSE IF IsInf(y) THEN y
    ELSE LET g == GCD(x.d, y.d)
         IN  Q(x.n * (y.d \div g) + y.n * (x.d \div g), (x.d \div g) * y.d)

Sub(x, y) == Add(x, Neg(y))

Mul(x, y) ==
    IF IsNaN(x) \/ IsNaN(y) THEN NaN
    ELSE IF IsInf(x) \/ IsInf(y)
         THEN (IF x.n = 0 \/ y.n = 0 THEN NaN
               ELSE [n |-> SignInt(x.n) * SignInt(y.n), d |-> 0])
    ELSE LET g == GCD(AbsInt(x.n), y.d)
             h == GCD(AbsInt(y.n), x.d)
         IN  Q((x.n \div g) * (y.n \div h), (x.d \div h) * (y.d \div g))

\* Float division as numpy does it: x/0 is +-inf, 0/0 is NaN, nothing raises.
Div(x, y) ==
    IF IsNaN(x) \/ IsNaN(y) THEN NaN
    ELSE IF IsInf(y) THEN (IF IsInf(x) THEN NaN ELSE Num(0))
    ELSE IF y.n = 0 THEN (IF x.n = 0 THEN NaN ELSE [n |-> SignInt(x.n), d |-> 0])
    ELSE IF IsInf(x) THEN [n |-> SignInt(x.n) * SignInt(y.n), d |-> 0]
    ELSE Mul(x, [n |-> SignInt(y.n) * y.d, d |-> AbsInt(y.n)])

\* Comparisons: every comparison with NaN is False.
Lt(x, y) ==
    IF IsNaN(x) \/ IsNaN(y) THEN FALSE
    ELSE IF x = y THEN FALSE
    ELSE IF x = NegInf \/ y = PosInf THEN TRUE
    ELSE IF x = PosInf \/ y = NegInf THEN FALSE
    ELSE LET g == GCD(x.d, y.d) IN x.n * (y.d \div g) < y.n * (x.d \div g)

Le(x, y) == ~IsNaN(x) /\ ~IsNaN(y) /\ (x = y \/ Lt(x, y))

Gt(x, y) == Lt(y, x)

Ge(x, y) == Le(y, x)

\* A boolean Series in arithmetic: True is 1, False is 0.
Ind(b) == IF b THEN Num(1) ELSE Num(0)

\* Series.isnull()
isnull(x) == IsNaN(x)

---------------------------------------------------------------------------
(* Strings are tuples of characters, so that 'Island' in str(x) is a       *)
(* substring search.                                                       *)

Antarctica == <<"A", "n", "t", "a", "r", "c", "t", "i", "c", "a">>
Greenland == <<"G", "r", "e", "e", "n", "l", "a", "n", "d">>
FrenchSouthern == <<"F", "r", "e", "n", "c", "h", " ", "S", "o", "u", "t", "h", "e", "r", "n", " ", "&", " ", "A", "n", "t", "a", "r", "c", "t", "i", "c", " ", "L", "a", "n", "d", "s">>
Iceland == <<"I", "c", "e", "l", "a", "n", "d">>
BakerIsland == <<"B", "a", "k", "e", "r", " ", "I", "s", "l", "a", "n", "d">>
CaymanIs == <<"C", "a", "y", "m", "a", "n", " ", "I", "s", ".">>
Israel == <<"I", "s", "r", "a", "e", "l">>
France == <<"F", "r", "a", "n", "c", "e">>
Malaysia == <<"M", "a", "l", "a", "y", "s", "i", "a">>
Qatar == <<"Q", "a", "t", "a", "r">>
China == <<"C", "h", "i", "n", "a">>
Montenegro == <<"M", "o", "n", "t", "e", "n", "e", "g", "r", "o">>
Singapore == <<"S", "i", "n", "g", "a", "p", "o", "r", "e">>
Bahrain == <<"B", "a", "h", "r", "a", "i", "n">>
ChineseTaipei == <<"C", "h", "i", "n", "e", "s", "e", " ", "T", "a", "i", "p", "e", "i">>
HongKongChina == <<"H", "o", "n", "g", " ", "K", "o", "n", "g", ",", " ", "C", "h", "i", "n", "a">>
Kosovo == <<"K", "o", "s", "o", "v", "o">>
NetherlandsAntilles == <<"N", "e", "t", "h", "e", "r", "l", "a", "n", "d", "s", " ", "A", "n", "t", "i", "l", "l", "e", "s">>
Gibraltar == <<"G", "i", "b", "r", "a", "l", "t", "a", "r">>
IslandLit == <<"I", "s", "l", "a", "n", "d">>
IsDotLit == <<"I", "s", ".">>

\* A null Country (a missing field of the data file).
NullCountry == <<"<null>">>

\* str(x) of a Country: a null is the float nan, whose str is 'nan'.
str(x) == IF x = NullCountry THEN <<"n", "a", "n">> ELSE x

\* sub in s
Contains(sub, s) ==
    \E i \in 1..(Len(s) - Len(sub) + 1) : SubSeq(s, i, i + Len(sub) - 1) = sub


---------------------------------------------------------------------------
(* Tables.                                                                 *)

\* df[col] = f, where f gives the new value of each row (a column is added
\* when it is not there yet).
SetCol(t, col, f) ==
    [i \in DOMAIN t |->
        [c \in (DOMAIN t[i]) \cup {col} |-> IF c = col THEN f[i] ELSE t[i][c]]]

\* df.loc[mask]: the rows whose label is in S, with their labels.
Rows(t, S) == [i \in S |-> t[i]]

---------------------------------------------------------------------------
(* The collaborators in model_methods, which src/ does not hold: modelled  *)
(* from their description.                                                 *)

\* model_methods.area(Lat): the cell area on the sphere, proportional to
\* cos(Lat); latitudes 0 and 60 degrees have cosines 1 and 1/2.
area(lat) ==
    IF IsNaN(lat) THEN NaN
    ELSE IF lat = Num(0) THEN Num(2)
    ELSE IF lat = Num(60) THEN Num(1)
    ELSE NaN

\* The suitability tables under data/suitability_factors/: class -> fraction
\* in [0,1].  The land-cover tables are keyed by the cell's land-cover class,
\* the slope tables by its slope class.
SuitabilityTable(file) ==
    CASE file = "wind_onshore"  ->
            [coast |-> Q(1, 4), crop |-> Q(1, 2), forest |-> Q(1, 4), water |-> Num(0)]
      [] file = "wind_offshore" ->
            [coast |-> Q(1, 2), crop |-> Num(0), forest |-> Num(0), water |-> Num(1)]
      [] file = "pv"            ->
            [coast |-> Q(1, 2), crop |-> Num(1), forest |-> Q(1, 4), water |-> Num(0)]
      [] file = "csp"           ->
            [coast |-> Q(1, 4), crop |-> Q(1, 2), forest |-> Num(0), water |-> Num(0)]
      [] file = "slope_pv"      -> [flat |-> Num(1), steep |-> Q(1, 2)]
      [] file = "slope_csp"     -> [flat |-> Num(1), steep |-> Num(0)]

\* The column of the cell that keys a suitability table.
ClassColumn(file) == IF file \in {"slope_pv", "slope_csp"} THEN "Slope" ELSE "LandCover"

\* model_methods.compute_sf(df, file, name): adds column name, the cell's
\* suitability fraction under the table of that file.
compute_sf(t, file, name) ==
    SetCol(t, name, [i \in DOMAIN t |-> SuitabilityTable(file)[t[i][ClassColumn(file)]]])

---------------------------------------------------------------------------
(* world_grid, lines 27-91.                                                *)

\* Lines 34-35.
Discard_Country(t) ==
    Rows(t, {i \in DOMAIN t :
                /\ (t[i]["Country"] = NullCountry) = FALSE
                /\ t[i]["Country"] # Antarctica
                /\ t[i]["Country"] # Greenland
                /\ t[i]["Country"] # FrenchSouthern})

\* Line 36.
Discard_Island(t) ==
    Rows(t, {i \in DOMAIN t : ~Contains(IslandLit, str(t[i]["Country"]))})

\* Discard_Is searching 'Is' without its dot.
Discard_Is_nodot(t) ==
    Rows(t, {i \in DOMAIN t : ~Contains(<<"I", "s">>, str(t[i]["Country"]))})

\* Line 37.
Discard_Is(t) ==
    Rows(t, {i \in DOMAIN t : ~Contains(IsDotLit, str(t[i]["Country"]))})

\* Discard_Elev dropping the cells below the depth, which keeps a null Elev.
Discard_Elev_keepnull(t, mp) ==
    Rows(t, {i \in DOMAIN t : ~Lt(t[i]["Elev"], mp.maxWaterDepth_wind)})

\* Line 38.
Discard_Elev(t, mp) ==
    Rows(t, {i \in DOMAIN t : Ge(t[i]["Elev"], mp.maxWaterDepth_wind)})

\* Line 39.
Discard_v_r_opti(t) ==
    Rows(t, {i \in DOMAIN t : isnull(t[i]["v_r_opti"]) = FALSE})

\* Line 53.
Zero_below_depth(t, mp) ==
    SetCol(t, "wind_sf_offshore",
           [i \in DOMAIN t |-> IF Lt(t[i]["Elev"], mp.maxWaterDepth_wind)
                               THEN Num(0) ELSE t[i]["wind_sf_offshore"]])

\* Line 57.
Derate_far(t) ==
    SetCol(t, "wind_sf_offshore",
           [i \in DOMAIN t |-> IF Ge(t[i]["DistCoast"], Q(3704, 100))
                               THEN Mul(t[i]["wind_sf_offshore"], Q(67, 100))
                               ELSE t[i]["wind_sf_offshore"]])

\* Derate_mid without the upper limit of its band.
Derate_mid_unbounded(t) ==
    SetCol(t, "wind_sf_offshore",
           [i \in DOMAIN t |-> IF Ge(t[i]["DistCoast"], Q(926, 100))
                               THEN Mul(t[i]["wind_sf_offshore"], Q(33, 100))
                               ELSE t[i]["wind_sf_offshore"]])

\* Line 58.
Derate_mid(t) ==
    SetCol(t, "wind_sf_offshore",
           [i \in DOMAIN t |-> IF Lt(t[i]["DistCoast"], Q(3704, 100))
                                  /\ Ge(t[i]["DistCoast"], Q(926, 100))
                               THEN Mul(t[i]["wind_sf_offshore"], Q(33, 100))
                               ELSE t[i]["wind_sf_offshore"]])

\* Line 59.
Derate_near(t) ==
    SetCol(t, "wind_sf_offshore",
           [i \in DOMAIN t |-> IF Lt(t[i]["DistCoast"], Q(926, 100))
                               THEN Mul(t[i]["wind_sf_offshore"], Q(1, 10))
                               ELSE t[i]["wind_sf_offshore"]])

\* Times_slope adding the slope factor instead of multiplying by it.
Times_slope_add(t, sf, slope_sf) ==
    SetCol(t, sf, [i \in DOMAIN t |-> Add(t[i][sf], t[i][slope_sf])])

\* Lines 64 and 66: df[sf] *= df[slope_sf].
Times_slope(t, sf, slope_sf) ==
    SetCol(t, sf, [i \in DOMAIN t |-> Mul(t[i][sf], t[i][slope_sf])])

\* Lines 69-72: df[name] = df['Area'] * df[sf].
Suitable_area(t, name, sf) ==
    SetCol(t, name, [i \in DOMAIN t |-> Mul(t[i]["Area"], t[i][sf])])

\* Lines 77-78: the arithmetic mean of the values at 71 m and 125 m.
Mean100(t, name, a, b) ==
    SetCol(t, name, [i \in DOMAIN t |-> Div(Add(t[i][a], t[i][b]), Num(2))])

(* The Weibull shape k = pow(std/mean, -1.086) is irrational: it is kept    *)
(* as [pw |-> std/mean], standing for pw to the power -1.086.  The wind     *)
(* statistics of the data are speeds, never negative, so pw is NaN, 0,      *)
(* positive or +inf, and k is then NaN, +inf, positive or 0.                *)
Pow_m1086(x) == [pw |-> x]

KIsNaN(k) == IsNaN(k.pw)

KIsZero(k) == k.pw = PosInf

KIsInf(k) == IsZero(k.pw)

KIsPos(k) == IsFinite(k.pw) /\ k.pw.n > 0

\* Weibull_k with the quotient upside down.
Weibull_k_swapped(t) ==
    SetCol(t, "k", [i \in DOMAIN t |->
                        Pow_m1086(Div(t[i]["WindMean100"], t[i]["WindStd100"]))])

\* Line 81.
Weibull_k(t) ==
    SetCol(t, "k", [i \in DOMAIN t |->
                        Pow_m1086(Div(t[i]["WindStd100"], t[i]["WindMean100"]))])

\* math.gamma(1 + 1/k) raises OverflowError when its argument exceeds 171.62,
\* that is when 1/k = pw^1.086 > 170.62, that is when pw > 113.57 (pw finite).
GammaOverflows(k) == IsFinite(k.pw) /\ Gt(k.pw, Q(11357, 100))

\* The sign class of gamma(1 + 1/k): "nan" | "pos" | "inf".
\* k NaN: gamma(nan) = nan.  k = 0: 1/k = inf and gamma(inf) = inf.
\* k = inf: gamma(1) = 1.  k > 0: gamma of a number above 1 is positive.
GammaClass(k) ==
    IF KIsNaN(k) THEN "nan" ELSE IF KIsZero(k) THEN "inf" ELSE "pos"

\* WindMean100 / gamma(...), as a sign class: "nan" | "zero" | "pos".
Weibull_c_of(mean, k) ==
    IF IsNaN(mean) \/ GammaClass(k) = "nan" THEN "nan"
    ELSE IF GammaClass(k) = "inf" THEN (IF IsInf(mean) THEN "nan" ELSE "zero")
    ELSE IF IsZero(mean) THEN "zero"
    ELSE "pos"

\* Line 82.
Weibull_c(t) ==
    SetCol(t, "c", [i \in DOMAIN t |-> Weibull_c_of(t[i]["WindMean100"], t[i]["k"])])

\* Line 82 raises when gamma overflows for some row.
Weibull_c_raises(t) == \E i \in DOMAIN t : GammaOverflows(t[i]["k"])

\* Line 85.
Hub_z(t) ==
    SetCol(t, "z", [i \in DOMAIN t |->
                        Add(Mul(t[i]["Elev"], Ind(Gt(t[i]["Elev"], Num(0)))), Num(100))])

\* pow(b, 5.255), as a sign class: a negative base gives NaN.
PowClass(b) ==
    IF IsNaN(b) \/ Lt(b, Num(0)) THEN "nan"
    ELSE IF IsZero(b) THEN "zero"
    ELSE IF IsInf(b) THEN "inf"
    ELSE "pos"

\* Line 87: P = 101325 * pow(1 - 0.0065 * z / 288.15, 5.255), as a sign class.
Pressure(t) ==
    SetCol(t, "P", [i \in DOMAIN t |->
        PowClass(Sub(Num(1), Div(Mul(Q(65, 10000), t[i]["z"]), Q(28815, 100))))])

\* Line 89: air_density = P / (287.05 * 288.15): the sign class of P.
Air_density(t) ==
    SetCol(t, "air_density", [i \in DOMAIN t |-> t[i]["P"]])

---------------------------------------------------------------------------
(* More collaborators of model_methods, modelled from their description.   *)
(* The optimal rated speed and turbine density stand for the yield and the *)
(* capacity per unit area; an undefined Weibull parameter or air density   *)
(* makes the result undefined.                                             *)

\* model_methods.E_out_wind(v_r_opti, n_opti, c, k, air_density, area, avail)
E_out_wind(v_r, n, c, k, rho, a, avail) ==
    IF c = "nan" \/ KIsNaN(k) \/ rho = "nan" THEN NaN
    ELSE Mul(Mul(Mul(v_r, n), a), avail)

\* model_methods.E_in_wind(v_r_opti, n_opti, air_density, area, inputs_gw):
\* installed capacity times the embodied energy per GW.
E_in_wind(v_r, n, rho, a, inputs_gw) ==
    IF rho = "nan" THEN NaN ELSE Mul(Mul(Mul(v_r, n), a), inputs_gw)

\* model_methods.E_out_solar(GHI, area): irradiance times effective area.
E_out_solar(ghi, a) == Mul(ghi, a)

\* The unit factor 1e-18 (J to EJ) of lines 128-183.  TLC's integers have 32
\* bits, so the factor is carried as 1/1000; it multiplies every energy
\* output and every energy input alike.
EJ == Q(1, 1000)

\* The 1E9 (W to GW) of lines 153, 180, 182, carried as 10, and the 1E6
\* (km2 to m2) of lines 174-182, carried as 10.
GW == Num(10)

M2 == Num(10)

---------------------------------------------------------------------------
(* world_grid_eroi, lines 94-158.                                          *)

\* Lines 110-111.
Inputs_gw_onshore(t, mp) ==
    SetCol(t, "inputs_gw_onshore", [i \in DOMAIN t |->
        Add(mp.fixedOnshore,
            Mul(Abs(t[i]["DistCoast"]), Add(mp.onshoreOMKm, mp.onshoreInstallationKm)))])

\* foundation_bands with the second band closed at -35 too: two bands overlap.
foundation_bands_overlap(e) ==
    <<[m |-> Q(219, 100), on |-> Gt(e, Num(-40)) /\ Le(e, Num(-35))],
      [m |-> Q(195, 100), on |-> Ge(e, Num(-35)) /\ Le(e, Num(-30))],
      [m |-> Q(157, 100), on |-> Gt(e, Num(-30)) /\ Le(e, Num(-25))],
      [m |-> Q(134, 100), on |-> Gt(e, Num(-25)) /\ Le(e, Num(-20))],
      [m |-> Q(108, 100), on |-> Gt(e, Num(-20)) /\ Le(e, Num(-15))],
      [m |-> Num(1),      on |-> Gt(e, Num(-15))]>>

\* Lines 116-120: the bands of the step function of Elev, each a multiplier
\* and its indicator, in the order of the source.
foundation_bands(e) ==
    <<[m |-> Q(219, 100), on |-> Gt(e, Num(-40)) /\ Le(e, Num(-35))],
      [m |-> Q(195, 100), on |-> Gt(e, Num(-35)) /\ Le(e, Num(-30))],
      [m |-> Q(157, 100), on |-> Gt(e, Num(-30)) /\ Le(e, Num(-25))],
      [m |-> Q(134, 100), on |-> Gt(e, Num(-25)) /\ Le(e, Num(-20))],
      [m |-> Q(108, 100), on |-> Gt(e, Num(-20)) /\ Le(e, Num(-15))],
      [m |-> Num(1),      on |-> Gt(e, Num(-15))]>>

\* Lines 116-120: the sum of the indicator-weighted multipliers.
scaling_factor_of(e) ==
    LET b == foundation_bands(e)
        term(j) == Mul(b[j].m, Ind(b[j].on))
    IN  Add(Add(Add(Add(Add(term(1), term(2)), term(3)), term(4)), term(5)), term(6))

\* Lines 116-120: the local Series scaling_factor_fixed_foundations, kept as
\* a column of the table.
Scaling_factor(t) ==
    SetCol(t, "scaling_factor_fixed_foundations",
           [i \in DOMAIN t |-> scaling_factor_of(t[i]["Elev"])])

\* Line 122: the base term of inputs_gw_offshore.
offshore_base_of(e, mp) ==
    Add(Mul(Ind(Le(e, Num(-40))), mp.fixedOffshoreFixed),
        Mul(Ind(Gt(e, Num(-40))), mp.fixedOffshoreFloating))

\* Line 122.
Inputs_gw_offshore(t, mp) ==
    SetCol(t, "inputs_gw_offshore",
           [i \in DOMAIN t |-> offshore_base_of(t[i]["Elev"], mp)])

\* Line 123.
Add_foundations(t, mp) ==
    SetCol(t, "inputs_gw_offshore", [i \in DOMAIN t |->
        Add(t[i]["inputs_gw_offshore"],
            Mul(t[i]["scaling_factor_fixed_foundations"], mp.offshoreFixedFoundations))])

\* Line 125.
Add_distance(t, mp) ==
    SetCol(t, "inputs_gw_offshore", [i \in DOMAIN t |->
        Add(t[i]["inputs_gw_offshore"],
            Mul(Abs(t[i]["DistCoast"]),
                Add(Add(mp.offshoreOMKm, mp.offshoreInstallationKm), mp.offshoreCableKm)))])

\* Lines 128 and 129.
Wind_e(t, name, area_col, avail) ==
    SetCol(t, name, [i \in DOMAIN t |->
        Mul(E_out_wind(t[i]["v_r_opti"], t[i]["n_opti"], t[i]["c"], t[i]["k"],
                       t[i]["air_density"], t[i][area_col], avail), EJ)])

\* Lines 130-132, 151-152, 176-178: if remove_operational_e: df[name] *= (1 - oe).
Remove_operational_e(t, mp, name, oe) ==
    IF mp.remove_operational_e
    THEN SetCol(t, name, [i \in DOMAIN t |-> Mul(t[i][name], Sub(Num(1), oe))])
    ELSE t

\* Lines 133, 142, 185, 186: df[name] = df[a] + df[b].
Sum_cols(t, name, a, b) ==
    SetCol(t, name, [i \in DOMAIN t |-> Add(t[i][a], t[i][b])])

\* Lines 138-141.
Wind_e_in(t, mp, name, area_col, inputs_col) ==
    SetCol(t, name, [i \in DOMAIN t |->
        Div(Mul(E_in_wind(t[i]["v_r_opti"], t[i]["n_opti"], t[i]["air_density"],
                          t[i][area_col], t[i][inputs_col]), EJ),
            mp.wind_life_time)])

\* eroi_of with the floor of 1 that line 187 has in a comment.
eroi_of_floor(e, e_in) ==
    IF Lt(Div(e, e_in), Num(1)) THEN Num(1) ELSE Div(e, e_in)

\* An EROI, lines 145-147, 155, 187: output / input, nothing else.
eroi_of(e, e_in) == Div(e, e_in)

\* Lines 145-147, 155, 187: df[name] = df[e] / df[e_in].
Eroi(t, name, e, e_in) ==
    SetCol(t, name, [i \in DOMAIN t |-> eroi_of(t[i][e], t[i][e_in])])

\* Line 150.
Pv_e(t, mp) ==
    SetCol(t, "pv_e", [i \in DOMAIN t |->
        Mul(E_out_solar(t[i]["GHI"], Mul(t[i]["pv_area"], mp.pv_gcr)), EJ)])

\* Line 153: the local Series gw_installed, kept as a column.
Gw_installed(t, mp) ==
    SetCol(t, "gw_installed", [i \in DOMAIN t |->
        Div(Mul(Mul(mp.wc_pv_panel, t[i]["pv_area"]), mp.pv_gcr), GW)])

\* Lines 154, 181, 183.
Pv_e_in(t, mp, name, gw) ==
    SetCol(t, name, [i \in DOMAIN t |->
        Mul(Mul(Div(mp.pv_life_time_inputs, mp.pv_life_time), t[i][gw]), EJ)])

---------------------------------------------------------------------------
(* world_rooftop_pv, lines 160-189.                                        *)

RECURSIVE SumGHI(_, _)
SumGHI(t, S) ==
    IF S = {} THEN Num(0)
    ELSE LET i == CHOOSE j \in S : TRUE IN Add(t[i]["GHI"], SumGHI(t, S \ {i}))

\* Line 165: world_grid().groupby(['Country']).mean()['GHI'].  The mean of a
\* group skips the null values, and is NaN when the group has no other.
GroupMeanGHI(grid) ==
    [c \in {grid[i]["Country"] : i \in DOMAIN grid} |->
        LET S == {i \in DOMAIN grid : grid[i]["Country"] = c /\ ~isnull(grid[i]["GHI"])}
        IN  IF S = {} THEN NaN ELSE Div(SumGHI(grid, S), Num(Cardinality(S)))]

\* Line 166: pd.concat([df, mean_ghi.reindex(df.index)], axis=1): a country
\* that the grid does not hold gets NaN.
Join_mean_ghi(t, mg) ==
    SetCol(t, "GHI", [c \in DOMAIN t |-> IF c \in DOMAIN mg THEN mg[c] ELSE NaN])

\* Override with the two sides of the assignment exchanged.
Override_exchanged(t, target, source) ==
    [c \in DOMAIN t |->
        IF c = source
        THEN [t[c] EXCEPT !["GHI"] = IF target \in DOMAIN t THEN t[target]["GHI"] ELSE NaN]
        ELSE t[c]]

\* Lines 167-171: df.loc[target, 'GHI'] = df.loc[source, 'GHI'].  A target
\* that is not in the index is added as a new row, its other columns null.
Override(t, target, source) ==
    IF target \in DOMAIN t
    THEN [c \in DOMAIN t |->
            IF c = target THEN [t[c] EXCEPT !["GHI"] = t[source]["GHI"]] ELSE t[c]]
    ELSE [c \in (DOMAIN t) \cup {target} |->
            IF c = target
            THEN [col \in DOMAIN t[source] |->
                    IF col = "GHI" THEN t[source]["GHI"] ELSE NaN]
            ELSE t[c]]

\* Lines 167-171 raise KeyError when the source is not in the index.
Override_raises(t, source) == source \notin DOMAIN t

\* Line 172: df.loc[[...], 'GHI'] = 0.
Zero_ghi(t, targets) ==
    [c \in DOMAIN t |-> IF c \in targets THEN [t[c] EXCEPT !["GHI"] = Num(0)] ELSE t[c]]

\* Line 172 raises KeyError when a listed label is not in the index.
Zero_ghi_raises(t, targets) == ~(targets \subseteq DOMAIN t)

\* Lines 174 and 175.
Rooftop_e(t, name, area_col, sf) ==
    SetCol(t, name, [c \in DOMAIN t |->
        Mul(E_out_solar(t[c]["GHI"], Mul(Mul(t[c][area_col], M2), sf)), EJ)])

\* Lines 180 and 182: the local Series gw_installed_res / gw_installed_com.
Rooftop_gw(t, mp, name, area_col, sf) ==
    SetCol(t, name, [c \in DOMAIN t |->
        Div(Mul(Mul(Mul(mp.wc_pv_panel, t[c][area_col]), M2), sf), GW)])

---------------------------------------------------------------------------
(* The statements in the order they run.  A statement is named by its      *)
(* (first) source line.                                                    *)

world_grid_body ==
    <<31, 34, 36, 37, 38, 39, 43, 48, 49, 50, 51, 53, 57, 58, 59, 63, 64, 65, 66,
      69, 70, 71, 72, 77, 78, 81, 82, 85, 87, 89>>

\* world_grid_eroi_body with wind_e (line 133) summed before the deduction of
\* the operational energy (lines 131-132).
world_grid_eroi_body_sum_first ==
    <<110, 116, 122, 123, 125, 128, 129, 133, 131, 132, 138, 140, 142, 145, 146,
      147, 150, 152, 153, 154, 155>>

world_grid_eroi_body ==
    <<110, 116, 122, 123, 125, 128, 129, 131, 132, 133, 138, 140, 142, 145, 146,
      147, 150, 152, 153, 154, 155>>

world_rooftop_pv_body ==
    <<165, 166, 167, 168, 169, 170, 171, 172, 174, 175, 177, 178, 180, 181, 182,
      183, 185, 186, 187>>

\* world_grid_eroi calls world_grid first (line 95); world_rooftop_pv reads
\* its own table (lines 161-164) and calls world_grid at line 165.
Program(e) ==
    IF e = "world_grid_eroi"
    THEN world_grid_body \o world_grid_eroi_body
    ELSE <<164>> \o world_grid_body \o world_rooftop_pv_body

\* What the statement at a line of world_grid or world_grid_eroi makes of
\* table t (line 31, the load, is in the action).
Exec(line, t, mp) ==
    CASE line = 34 -> Discard_Country(t)
      [] line = 36 -> Discard_Island(t)
      [] line = 37 -> Discard_Is(t)
      [] line = 38 -> Discard_Elev(t, mp)
      [] line = 39 -> Discard_v_r_opti(t)
      [] line = 43 -> SetCol(t, "Area", [i \in DOMAIN t |-> area(t[i]["Lat"])])
      [] line = 48 -> compute_sf(t, "wind_onshore", "wind_sf_onshore")
      [] line = 49 -> compute_sf(t, "wind_offshore", "wind_sf_offshore")
      [] line = 50 -> compute_sf(t, "pv", "pv_sf")
      [] line = 51 -> compute_sf(t, "csp", "csp_sf")
      [] line = 53 -> Zero_below_depth(t, mp)
      [] line = 57 -> Derate_far(t)
      [] line = 58 -> Derate_mid(t)
      [] line = 59 -> Derate_near(t)
      [] line = 63 -> compute_sf(t, "slope_pv", "slope_pv_sf")
      [] line = 64 -> Times_slope(t, "pv_sf", "slope_pv_sf")
      [] line = 65 -> compute_sf(t, "slope_csp", "slope_csp_sf")
      [] line = 66 -> Times_slope(t, "csp_sf", "slope_csp_sf")
      [] line = 69 -> Suitable_area(t, "wind_area_onshore", "wind_sf_onshore")
      [] line = 70 -> Suitable_area(t, "wind_area_offshore", "wind_sf_offshore")
      [] line = 71 -> Suitable_area(t, "pv_area", "pv_sf")
      [] line = 72 -> Suitable_area(t, "csp_area", "csp_sf")
      [] line = 77 -> Mean100(t, "WindMean100", "WindMean71", "WindMean125")
      [] line = 78 -> Mean100(t, "WindStd100", "WindStd71", "WindStd125")
      [] line = 81 -> Weibull_k(t)
      [] line = 82 -> Weibull_c(t)
      [] line = 85 -> Hub_z(t)
      [] line = 87 -> Pressure(t)
      [] line = 89 -> Air_density(t)
      [] line = 110 -> Inputs_gw_onshore(t, mp)
      [] line = 116 -> Scaling_factor(t)
      [] line = 122 -> Inputs_gw_offshore(t, mp)
      [] line = 123 -> Add_foundations(t, mp)
      [] line = 125 -> Add_distance(t, mp)
      [] line = 128 -> Wind_e(t, "wind_onshore_e", "wind_area_onshore", mp.availFactor_onshore)
      [] line = 129 -> Wind_e(t, "wind_offshore_e", "wind_area_offshore", mp.availFactor_offshore)
      [] line = 131 -> Remove_operational_e(t, mp, "wind_onshore_e", mp.oe_wind_onshore)
      [] line = 132 -> Remove_operational_e(t, mp, "wind_offshore_e", mp.oe_wind_offshore)
      [] line = 133 -> Sum_cols(t, "wind_e", "wind_onshore_e", "wind_offshore_e")
      [] line = 138 -> Wind_e_in(t, mp, "wind_onshore_e_in", "wind_area_onshore", "inputs_gw_onshore")
      [] line = 140 -> Wind_e_in(t, mp, "wind_offshore_e_in", "wind_area_offshore", "inputs_gw_offshore")
      [] line = 142 -> Sum_cols(t, "wind_e_in", "wind_onshore_e_in", "wind_offshore_e_in")
      [] line = 145 -> Eroi(t, "wind_onshore_eroi", "wind_onshore_e", "wind_onshore_e_in")
      [] line = 146 -> Eroi(t, "wind_offshore_eroi", "wind_offshore_e", "wind_offshore_e_in")
      [] line = 147 -> Eroi(t, "wind_eroi", "wind_e", "wind_e_in")
      [] line = 150 -> Pv_e(t, mp)
      [] line = 152 -> Remove_operational_e(t, mp, "pv_e", mp.oe_pv)
      [] line = 153 -> Gw_installed(t, mp)
      [] line = 154 -> Pv_e_in(t, mp, "pv_e_in", "gw_installed")
      [] line = 155 -> Eroi(t, "pv_eroi", "pv_e", "pv_e_in")

\* The statement at the line raises on table t.
Raises(line, t) == line = 82 /\ Weibull_c_raises(t)

\* What the statement at a line of world_rooftop_pv makes of its table t
\* (lines 164 and 165, which set df and mean_ghi, are in the action).
ExecRooftop(line, t, mg, mp) ==
    CASE line = 166 -> Join_mean_ghi(t, mg)
      [] line = 167 -> Override(t, Singapore, Malaysia)
      [] line = 168 -> Override(t, Bahrain, Qatar)
      [] line = 169 -> Override(t, ChineseTaipei, China)
      [] line = 170 -> Override(t, HongKongChina, China)
      [] line = 171 -> Override(t, Kosovo, Montenegro)
      [] line = 172 -> Zero_ghi(t, {NetherlandsAntilles, Gibraltar})
      [] line = 174 -> Rooftop_e(t, "residential_e", "Area PV Residential", mp.sf_residential)
      [] line = 175 -> Rooftop_e(t, "commercial_e", "Area PV Commercial", mp.sf_commercial)
      [] line = 177 -> Remove_operational_e(t, mp, "residential_e", mp.oe_pv)
      [] line = 178 -> Remove_operational_e(t, mp, "commercial_e", mp.oe_pv)
      [] line = 180 -> Rooftop_gw(t, mp, "gw_installed_res", "Area PV Residential", mp.sf_residential)
      [] line = 181 -> Pv_e_in(t, mp, "residential_e_in", "gw_installed_res")
      [] line = 182 -> Rooftop_gw(t, mp, "gw_installed_com", "Area PV Commercial", mp.sf_commercial)
      [] line = 183 -> Pv_e_in(t, mp, "commercial_e_in", "gw_installed_com")
      [] line = 185 -> Sum_cols(t, "pv_e", "residential_e", "commercial_e")
      [] line = 186 -> Sum_cols(t, "pv_e_in", "residential_e_in", "commercial_e_in")
      [] line = 187 -> Eroi(t, "pv_eroi", "pv_e", "pv_e_in")

RaisesRooftop(line, t) ==
    \/ line = 167 /\ Override_raises(t, Malaysia)
    \/ line = 168 /\ Override_raises(t, Qatar)
    \/ line \in {169, 170} /\ Override_raises(t, China)
    \/ line = 171 /\ Override_raises(t, Montenegro)
    \/ line = 172 /\ Zero_ghi_raises(t, {NetherlandsAntilles, Gibraltar})

---------------------------------------------------------------------------
(* The columns each statement of world_grid and world_grid_eroi reads and  *)
(* the column it writes.                                                   *)

Reads(line) ==
    CASE line \in {34, 36, 37} -> {"Country"}
      [] line = 38 -> {"Elev"}
      [] line = 39 -> {"v_r_opti"}
      [] line = 43 -> {"Lat"}
      [] line \in {48, 49, 50, 51} -> {"LandCover"}
      [] line = 53 -> {"Elev"}
      [] line \in {57, 58, 59} -> {"DistCoast", "wind_sf_offshore"}
      [] line \in {63, 65} -> {"Slope"}
      [] line = 64 -> {"pv_sf", "slope_pv_sf"}
      [] line = 66 -> {"csp_sf", "slope_csp_sf"}
      [] line = 69 -> {"Area", "wind_sf_onshore"}
      [] line = 70 -> {"Area", "wind_sf_offshore"}
      [] line = 71 -> {"Area", "pv_sf"}
      [] line = 72 -> {"Area", "csp_sf"}
      [] line = 77 -> {"WindMean71", "WindMean125"}
      [] line = 78 -> {"WindStd71", "WindStd125"}
      [] line = 81 -> {"WindStd100", "WindMean100"}
      [] line = 82 -> {"WindMean100", "k"}
      [] line = 85 -> {"Elev"}
      [] line = 87 -> {"z"}
      [] line = 89 -> {"P"}
      [] line = 110 -> {"DistCoast"}
      [] line = 116 -> {"Elev"}
      [] line = 122 -> {"Elev"}
      [] line = 123 -> {"inputs_gw_offshore", "scaling_factor_fixed_foundations"}
      [] line = 125 -> {"inputs_gw_offshore", "DistCoast"}
      [] line = 128 -> {"v_r_opti", "n_opti", "c", "k", "air_density", "wind_area_onshore"}
      [] line = 129 -> {"v_r_opti", "n_opti", "c", "k", "air_density", "wind_area_offshore"}
      [] line = 131 -> {"wind_onshore_e"}
      [] line = 132 -> {"wind_offshore_e"}
      [] line = 133 -> {"wind_onshore_e", "wind_offshore_e"}
      [] line = 138 -> {"v_r_opti", "n_opti", "air_density", "wind_area_onshore", "inputs_gw_onshore"}
      [] line = 140 -> {"v_r_opti", "n_opti", "air_density", "wind_area_offshore", "inputs_gw_offshore"}
      [] line = 142 -> {"wind_onshore_e_in", "wind_offshore_e_in"}
      [] line = 145 -> {"wind_onshore_e", "wind_onshore_e_in"}
      [] line = 146 -> {"wind_offshore_e", "wind_offshore_e_in"}
      [] line = 147 -> {"wind_e", "wind_e_in"}
      [] line = 150 -> {"GHI", "pv_area"}
      [] line = 152 -> {"pv_e"}
      [] line = 153 -> {"pv_area"}
      [] line = 154 -> {"gw_installed"}
      [] line = 155 -> {"pv_e", "pv_e_in"}
      [] OTHER -> {}

Writes(line) ==
    CASE line = 43 -> {"Area"}
      [] line = 48 -> {"wind_sf_onshore"}
      [] line \in {49, 53, 57, 58, 59} -> {"wind_sf_offshore"}
      [] line \in {50, 64} -> {"pv_sf"}
      [] line \in {51, 66} -> {"csp_sf"}
      [] line = 63 -> {"slope_pv_sf"}
      [] line = 65 -> {"slope_csp_sf"}
      [] line = 69 -> {"wind_area_onshore"}
      [] line = 70 -> {"wind_area_offshore"}
      [] line = 71 -> {"pv_area"}
      [] line = 72 -> {"csp_area"}
      [] line = 77 -> {"WindMean100"}
      [] line = 78 -> {"WindStd100"}
      [] line = 81 -> {"k"}
      [] line = 82 -> {"c"}
      [] line = 85 -> {"z"}
      [] line = 87 -> {"P"}
      [] line = 89 -> {"air_density"}
      [] line = 110 -> {"inputs_gw_onshore"}
      [] line = 116 -> {"scaling_factor_fixed_foundations"}
      [] line \in {122, 123, 125} -> {"inputs_gw_offshore"}
      [] line \in {128, 131} -> {"wind_onshore_e"}
      [] line \in {129, 132} -> {"wind_offshore_e"}
      [] line = 133 -> {"wind_e"}
      [] line = 138 -> {"wind_onshore_e_in"}
      [] line = 140 -> {"wind_offshore_e_in"}
      [] line = 142 -> {"wind_e_in"}
      [] line = 145 -> {"wind_onshore_eroi"}
      [] line = 146 -> {"wind_offshore_eroi"}
      [] line = 147 -> {"wind_eroi"}
      [] line \in {150, 152} -> {"pv_e"}
      [] line = 153 -> {"gw_installed"}
      [] line = 154 -> {"pv_e_in"}
      [] line = 155 -> {"pv_eroi"}
      [] OTHER -> {}

\* The columns of the data file that the model carries.
InputColumns ==
    {"Country", "Lat", "Elev", "DistCoast", "WindMean71", "WindMean125", "WindStd71",
     "WindStd125", "GHI", "v_r_opti", "n_opti", "LandCover", "Slope"}

---------------------------------------------------------------------------
(* The inputs: the constants, the cell records and the rooftop records.    *)

\* The largest number of cells of a table with several cells.
MaxCells == 2

\* model_params, which src/ does not hold: values of the magnitudes that the
\* comments of lines 102-107 give (in PJ), small enough for 32-bit products.
Params(flag) ==
    [maxWaterDepth_wind |-> Num(-1000),
     fixedOnshore |-> Num(14), onshoreOMKm |-> Q(1, 10), onshoreInstallationKm |-> Q(1, 10),
     fixedOffshoreFixed |-> Num(18), fixedOffshoreFloating |-> Num(27),
     offshoreFixedFoundations |-> Num(4),
     offshoreOMKm |-> Q(1, 10), offshoreInstallationKm |-> Q(1, 10),
     offshoreCableKm |-> Q(3, 10),
     availFactor_onshore |-> Q(9, 10), availFactor_offshore |-> Q(4, 5),
     remove_operational_e |-> flag,
     oe_wind_onshore |-> Q(1, 10), oe_wind_offshore |-> Q(1, 5), oe_pv |-> Q(1, 10),
     wind_life_time |-> Num(25), pv_life_time |-> Num(25), pv_life_time_inputs |-> Num(5),
     pv_gcr |-> Q(1, 5), wc_pv_panel |-> Num(2),
     sf_residential |-> Q(1, 4), sf_commercial |-> Q(1, 2)]

BaseRow ==
    [Country |-> France, Lat |-> Num(0), Elev |-> Num(-10), DistCoast |-> Num(20),
     WindMean71 |-> Num(6), WindMean125 |-> Num(8), WindStd71 |-> Num(3),
     WindStd125 |-> Num(3), GHI |-> Num(2), v_r_opti |-> Num(2), n_opti |-> Num(1),
     LandCover |-> "coast", Slope |-> "flat"]

ElevValues ==
    {Num(e) : e \in -46..-8} \cup
    {Num(0), Num(5), Num(-1000), Num(-1001), Q(-81, 2), Q(-79, 2), Q(-31, 2), Q(-29, 2)}

CountryValues ==
    {NullCountry, Antarctica, Greenland, FrenchSouthern, Iceland, BakerIsland, CaymanIs,
     Israel, France, IslandLit, <<"I", "s">>, <<"i", "s", "l", "a", "n", "d">>}

DistValues ==
    {Num(-5), Num(0), Q(925, 100), Q(926, 100), Num(20), Q(3703, 100), Q(3704, 100), Num(50)}

ElevRows == {[BaseRow EXCEPT !["Elev"] = e] : e \in ElevValues}

CountryRows == {[BaseRow EXCEPT !["Country"] = c] : c \in CountryValues}

CoastRows ==
    {[BaseRow EXCEPT !["DistCoast"] = d, !["LandCover"] = lc, !["Slope"] = s, !["Lat"] = la] :
        d \in DistValues, lc \in {"coast", "crop", "forest", "water"},
        s \in {"flat", "steep"}, la \in {Num(0), Num(60)}}

NullRows ==
    {[BaseRow EXCEPT ![c] = NaN] :
        c \in {"Elev", "DistCoast", "WindMean71", "WindMean125", "WindStd71", "WindStd125",
               "GHI", "v_r_opti", "Lat", "n_opti"}}

WindRows ==
    {[BaseRow EXCEPT !["WindMean71"] = m, !["WindMean125"] = m2,
                     !["WindStd71"] = sd, !["WindStd125"] = sd2] :
        m \in {Num(0), Num(1)}, m2 \in {Num(0), Num(2)},
        sd \in {Num(0), Num(1), Num(300)}, sd2 \in {Num(0), Num(2)}}

EroiRows ==
    {[BaseRow EXCEPT !["Elev"] = e, !["DistCoast"] = d, !["LandCover"] = lc, !["n_opti"] = n] :
        e \in {Num(-10), Num(-38), Num(-50)}, d \in {Num(5), Num(50)},
        lc \in {"coast", "crop", "water"}, n \in {Num(1), Num(3)}}

CellRows == ElevRows \cup CountryRows \cup CoastRows \cup NullRows \cup WindRows \cup EroiRows

\* Rows for the tables of several cells.
SampleRows ==
    {BaseRow,
     [BaseRow EXCEPT !["Country"] = Greenland],
     [BaseRow EXCEPT !["Elev"] = Num(-38), !["DistCoast"] = Num(50), !["GHI"] = Num(5)],
     [BaseRow EXCEPT !["WindMean71"] = Num(0), !["WindMean125"] = Num(0), !["Lat"] = Num(60)]}

\* Rows that differ in DistCoast alone.
DistRows == {[BaseRow EXCEPT !["DistCoast"] = d] : d \in DistValues \cup {NaN}}

GhiRows ==
    {[BaseRow EXCEPT !["Country"] = c, !["GHI"] = g] :
        c \in {Malaysia, Qatar}, g \in {Num(1), Num(4)}}
    \cup {[BaseRow EXCEPT !["Country"] = China, !["GHI"] = Num(3)],
          [BaseRow EXCEPT !["Country"] = Montenegro, !["GHI"] = Num(2)],
          [BaseRow EXCEPT !["Country"] = Malaysia, !["GHI"] = NaN],
          [BaseRow EXCEPT !["Country"] = France, !["GHI"] = Num(5)]}

\* The tables of 1..MaxCells cells with rows of R.
Tables(R) == UNION {[1..n -> R] : n \in 1..MaxCells}

RooftopCountries ==
    {Singapore, Malaysia, Bahrain, Qatar, ChineseTaipei, HongKongChina, China, Kosovo,
     Montenegro, NetherlandsAntilles, Gibraltar, France}

RooftopRow == ("Area PV Residential" :> Num(2)) @@ ("Area PV Commercial" :> Num(1))

\* Rooftop tables: every country; one without the row of Kosovo (a target of
\* line 171); one without the row of Montenegro (its source).
RooftopTables ==
    {[c \in RooftopCountries \ x |-> RooftopRow] : x \in {{}, {Kosovo}, {Montenegro}}}

Inputs ==
    {[raw |-> (1 :> r), rooftop_area |-> [c \in RooftopCountries |-> RooftopRow],
      mp |-> Params(f), entry |-> "world_grid_eroi"] : r \in CellRows, f \in BOOLEAN}
    \cup
    {[raw |-> t, rooftop_area |-> [c \in RooftopCountries |-> RooftopRow],
      mp |-> Params(TRUE), entry |-> "world_grid_eroi"] :
        t \in Tables(SampleRows) \cup Tables(DistRows)}
    \cup
    {[raw |-> t, rooftop_area |-> ra, mp |-> Params(f), entry |-> "world_rooftop_pv"] :
        t \in Tables(GhiRows), ra \in RooftopTables, f \in {TRUE}}
    \cup
    {[raw |-> (1 :> BaseRow), rooftop_area |-> [c \in RooftopCountries |-> RooftopRow],
      mp |-> Params(FALSE), entry |-> "world_rooftop_pv"]}

---------------------------------------------------------------------------
(* The state machine.                                                      *)

Init ==
    /\ \E x \in Inputs :
          /\ raw = x.raw
          /\ rooftop_area = x.rooftop_area
          /\ model_params = x.mp
          /\ entry = x.entry
    /\ pc = 1
    /\ status = "running"
    /\ df = <<>>
    /\ rt = <<>>
    /\ mean_ghi = <<>>
    /\ pre_derating = <<>>
    /\ reads = {}

Line == Program(entry)[pc]

\* After the last statement the function returns its table.
Advance ==
    /\ pc' = pc + 1
    /\ status' = IF pc = Len(Program(entry)) THEN "returned" ELSE "running"

Raise ==
    /\ status' = "raised"
    /\ UNCHANGED pc

\* One statement of world_grid (lines 27-91), called by both entry points.
world_grid ==
    /\ status = "running"
    /\ Line \in 27..91
    /\ IF Line = 31
       THEN df' = raw /\ Advance
       ELSE IF Raises(Line, df)
       THEN UNCHANGED df /\ Raise
       ELSE df' = Exec(Line, df, model_params) /\ Advance
    /\ pre_derating' = IF Line = 57 THEN df ELSE pre_derating
    /\ reads' = IF Raises(Line, df) THEN reads ELSE reads \cup (Reads(Line) \ Writes(Line))
    /\ UNCHANGED <<raw, rooftop_area, model_params, entry, rt, mean_ghi>>

\* One statement of world_grid_eroi (lines 94-158).
world_grid_eroi ==
    /\ status = "running"
    /\ Line \in 94..158
    /\ df' = Exec(Line, df, model_params)
    /\ Advance
    /\ reads' = reads \cup (Reads(Line) \ Writes(Line))
    /\ UNCHANGED <<raw, rooftop_area, model_params, entry, rt, mean_ghi, pre_derating>>

\* One statement of world_rooftop_pv (lines 160-189).
world_rooftop_pv ==
    /\ status = "running"
    /\ Line \in 160..189
    /\ IF Line = 164
       THEN rt' = rooftop_area /\ UNCHANGED mean_ghi /\ Advance
       ELSE IF Line = 165
       THEN mean_ghi' = GroupMeanGHI(df) /\ UNCHANGED rt /\ Advance
       ELSE IF RaisesRooftop(Line, rt)
       THEN UNCHANGED <<rt, mean_ghi>> /\ Raise
       ELSE rt' = ExecRooftop(Line, rt, mean_ghi, model_params)
            /\ UNCHANGED mean_ghi /\ Advance
    /\ UNCHANGED <<raw, rooftop_area, model_params, entry, df, pre_derating, reads>>

Next == world_grid \/ world_grid_eroi \/ world_rooftop_pv

Spec == Init /\ [][Next]_vars

---------------------------------------------------------------------------
(* Where the run is.                                                       *)

\* The statement at the line has run.
Done(line) == \E j \in 1..(pc - 1) : Program(entry)[j] = line

\* The statement at the line is the next to run.
At(line) == status = "running" /\ Line = line

Returned(e) == status = "returned" /\ entry = e

---------------------------------------------------------------------------
(* C1: the base term of inputs_gw_offshore.                                *)

\* C1 (as claimed): when line 122 has set inputs_gw_offshore, every cell with
\* Elev > -40 holds fixedOffshoreFixed and every cell with Elev <= -40 holds
\* fixedOffshoreFloating.
C1_BaseTermByDepth ==
    At(123) =>
        \A i \in DOMAIN df :
            /\ Gt(df[i]["Elev"], Num(-40))
                  => df[i]["inputs_gw_offshore"] = model_params.fixedOffshoreFixed
            /\ Le(df[i]["Elev"], Num(-40))
                  => df[i]["inputs_gw_offshore"] = model_params.fixedOffshoreFloating

---------------------------------------------------------------------------
(* C2: the foundation scaling factor.                                      *)

\* The step function as the claim lists it, band by band from the shallowest.
StepFactor(e) ==
    IF Gt(e, Num(-15)) THEN Num(1)
    ELSE IF Gt(e, Num(-20)) THEN Q(108, 100)
    ELSE IF Gt(e, Num(-25)) THEN Q(134, 100)
    ELSE IF Gt(e, Num(-30)) THEN Q(157, 100)
    ELSE IF Gt(e, Num(-35)) THEN Q(195, 100)
    ELSE Q(219, 100)

BandsOn(e) == {j \in 1..Len(foundation_bands(e)) : foundation_bands(e)[j].on}

---------------------------------------------------------------------------
(* C3: the coastal derating of wind_sf_offshore.                           *)

\* The cell's DistCoast is in one of the three bands and its suitability is
\* the value v before derating times that band's factor.
DeratedOnce(dist, v, w) ==
    \/ Ge(dist, Q(3704, 100)) /\ w = Mul(v, Q(67, 100))
    \/ Ge(dist, Q(926, 100)) /\ Lt(dist, Q(3704, 100)) /\ w = Mul(v, Q(33, 100))
    \/ Lt(dist, Q(926, 100)) /\ w = Mul(v, Q(1, 10))

\* For the same suitability before derating, a cell nearer the coast has no
\* larger derated suitability.
DeratingMonotone ==
    \A i, j \in DOMAIN df :
        /\ pre_derating[i]["wind_sf_offshore"] = pre_derating[j]["wind_sf_offshore"]
        /\ Le(df[i]["DistCoast"], df[j]["DistCoast"])
        => Le(df[i]["wind_sf_offshore"], df[j]["wind_sf_offshore"])

\* C3 (as claimed): after lines 57-59 every cell's wind_sf_offshore is its
\* value before line 57 times exactly one of 0.67, 0.33, 0.1, chosen by
\* DistCoast; none is left unmultiplied.
C3_EveryCellDeratedOnce ==
    Done(59) =>
        \A i \in DOMAIN df :
            DeratedOnce(df[i]["DistCoast"], pre_derating[i]["wind_sf_offshore"],
                        df[i]["wind_sf_offshore"])

\* C3 (amended): after lines 57-59 every cell whose DistCoast is not null has
\* its value before line 57 times exactly one of the three factors, a cell
\* whose DistCoast is null keeps its value, and among cells of the same
\* suitability before derating the derated one does not grow towards the coast.
C3_DeratedOnceUnlessNull ==
    Done(59) =>
        /\ \A i \in DOMAIN df :
              IF isnull(df[i]["DistCoast"])
              THEN df[i]["wind_sf_offshore"] = pre_derating[i]["wind_sf_offshore"]
              ELSE DeratedOnce(df[i]["DistCoast"], pre_derating[i]["wind_sf_offshore"],
                               df[i]["wind_sf_offshore"])
        /\ DeratingMonotone

\* Two cells of the same positive suitability, one beyond 37.04 km and one in
\* the middle band, derated by 0.67 and 0.33.
C3_Witness ==
    /\ Done(59)
    /\ \E i, j \in DOMAIN df :
          /\ Ge(df[i]["DistCoast"], Q(3704, 100))
          /\ Lt(df[j]["DistCoast"], Q(3704, 100)) /\ Ge(df[j]["DistCoast"], Q(926, 100))
          /\ Gt(pre_derating[i]["wind_sf_offshore"], Num(0))
          /\ df[i]["wind_sf_offshore"] = Mul(pre_derating[i]["wind_sf_offshore"], Q(67, 100))
          /\ df[j]["wind_sf_offshore"] = Mul(pre_derating[j]["wind_sf_offshore"], Q(33, 100))

---------------------------------------------------------------------------
(* C4: the country-exclusion filter.                                       *)

\* The record's Country passes the filter as the claim states it.
CountryRetained(c) ==
    /\ c # NullCountry
    /\ c \notin {Antarctica, Greenland, FrenchSouthern}
    /\ ~Contains(IslandLit, c)
    /\ ~Contains(IsDotLit, c)

\* C4: after lines 34-37 the table holds exactly the records whose Country is
\* not null, not one of the three excluded names and contains neither
\* 'Island' nor 'Is.'; Iceland stays, Baker Island and a null Country go; and
\* no later statement brings an excluded record back.
C4_CountryFilter ==
    Done(37) =>
        \A i \in DOMAIN raw :
            /\ i \in DOMAIN df => CountryRetained(raw[i]["Country"])
            /\ At(38) =>
                  /\ CountryRetained(raw[i]["Country"]) => i \in DOMAIN df
                  /\ raw[i]["Country"] = Iceland => i \in DOMAIN df
                  /\ raw[i]["Country"] \in {BakerIsland, NullCountry} => i \notin DOMAIN df

C4_Witness ==
    /\ At(38)
    /\ \E i \in DOMAIN df : df[i]["Country"] = Iceland

---------------------------------------------------------------------------
(* C5: what the filtering stage removes.                                   *)

NullableFields ==
    {"Elev", "DistCoast", "WindMean71", "WindMean125", "WindStd71", "WindStd125", "GHI"}

\* C5 (as claimed): every cell of the table world_grid returns has non-null
\* Elev, DistCoast, WindMean71/125, WindStd71/125 and GHI.
C5_NoNullFieldRemains ==
    Done(89) => \A i \in DOMAIN df : \A c \in NullableFields : ~isnull(df[i][c])

\* C5 (amended): the table world_grid returns holds exactly the records whose
\* Country passes the country filter, whose Elev is not null and at least
\* maxWaterDepth_wind, and whose v_r_opti is not null; a null DistCoast, wind
\* field or GHI does not remove a record.
C5_FilterRemoves ==
    Done(39) =>
        DOMAIN df = {i \in DOMAIN raw :
                        /\ CountryRetained(raw[i]["Country"])
                        /\ ~isnull(raw[i]["Elev"])
                        /\ Ge(raw[i]["Elev"], model_params.maxWaterDepth_wind)
                        /\ ~isnull(raw[i]["v_r_opti"])}

\* A cell with a null DistCoast is in the table world_grid returns.
C5_Witness ==
    /\ Done(89)
    /\ \E i \in DOMAIN df : isnull(df[i]["DistCoast"])

---------------------------------------------------------------------------
(* C6: the suitable areas.                                                 *)

AreaColumns == {"wind_area_onshore", "wind_area_offshore", "pv_area", "csp_area"}

\* C6: when lines 69-72 have run, every suitable area of a cell of area
\* Area >= 0 is between 0 and Area (the tables of the resolver hold
\* fractions in [0,1]).
C6_AreaWithinCell ==
    Done(72) =>
        \A i \in DOMAIN df :
            Ge(df[i]["Area"], Num(0)) =>
                \A a \in AreaColumns :
                    Le(Num(0), df[i][a]) /\ Le(df[i][a], df[i]["Area"])

\* A cell with a derated offshore area and a slope-reduced PV area, both
\* strictly inside the cell.
C6_Witness ==
    /\ Done(72)
    /\ \E i \in DOMAIN df :
          /\ Gt(df[i]["wind_area_offshore"], Num(0))
          /\ Lt(df[i]["wind_area_offshore"], df[i]["Area"])
          /\ df[i]["Slope"] = "steep"
          /\ Gt(df[i]["pv_area"], Num(0))
          /\ Lt(df[i]["pv_area"], df[i]["Area"])

---------------------------------------------------------------------------
(* C7: the EROIs.                                                          *)

\* r is e / e_in: the float quotient, and where the input is a finite
\* non-zero number and the output finite, the number whose product with the
\* input is the output.
IsQuotient(r, e, e_in) ==
    /\ r = Div(e, e_in)
    /\ IsFinite(e) /\ IsFinite(e_in) /\ ~IsZero(e_in) => Mul(r, e_in) = e

\* The output that lines 128-132 leave: the model's output in EJ, less its
\* operational energy when remove_operational_e is set.
NetOutput(gross, oe) ==
    IF model_params.remove_operational_e THEN Mul(gross, Sub(Num(1), oe)) ELSE gross

MeanOfTwo(x, y) == Div(Add(x, y), Num(2))

\* C7: in the table world_grid_eroi returns, wind_onshore_eroi and
\* wind_offshore_eroi are output / input of the outputs after the
\* operational-energy deduction, wind_eroi is the sum of the two outputs over
\* the sum of the two inputs, and differs from the mean of the two EROIs
\* whenever the inputs differ and the EROIs differ; in the table
\* world_rooftop_pv returns, pv_eroi is the summed output over the summed
\* input.  No EROI is raised to a floor.
C7_EroiIsOutputOverInput ==
    /\ Returned("world_grid_eroi") =>
          \A i \in DOMAIN df :
            LET r == df[i] IN
              /\ r["wind_onshore_e"] =
                    NetOutput(Mul(E_out_wind(r["v_r_opti"], r["n_opti"], r["c"], r["k"],
                                             r["air_density"], r["wind_area_onshore"],
                                             model_params.availFactor_onshore), EJ),
                              model_params.oe_wind_onshore)
              /\ r["wind_offshore_e"] =
                    NetOutput(Mul(E_out_wind(r["v_r_opti"], r["n_opti"], r["c"], r["k"],
                                             r["air_density"], r["wind_area_offshore"],
                                             model_params.availFactor_offshore), EJ),
                              model_params.oe_wind_offshore)
              /\ IsQuotient(r["wind_onshore_eroi"], r["wind_onshore_e"], r["wind_onshore_e_in"])
              /\ IsQuotient(r["wind_offshore_eroi"], r["wind_offshore_e"], r["wind_offshore_e_in"])
              /\ IsQuotient(r["wind_eroi"], Add(r["wind_onshore_e"], r["wind_offshore_e"]),
                            Add(r["wind_onshore_e_in"], r["wind_offshore_e_in"]))
              /\ IsQuotient(r["pv_eroi"], r["pv_e"], r["pv_e_in"])
              /\ (/\ IsFinite(r["wind_onshore_eroi"]) /\ IsFinite(r["wind_offshore_eroi"])
                  /\ r["wind_onshore_e_in"] # r["wind_offshore_e_in"]
                  /\ r["wind_onshore_eroi"] # r["wind_offshore_eroi"])
                 => r["wind_eroi"] # MeanOfTwo(r["wind_onshore_eroi"], r["wind_offshore_eroi"])
    /\ Returned("world_rooftop_pv") =>
          \A c \in DOMAIN rt :
              IsQuotient(rt[c]["pv_eroi"],
                         Add(rt[c]["residential_e"], rt[c]["commercial_e"]),
                         Add(rt[c]["residential_e_in"], rt[c]["commercial_e_in"]))

\* A cell with onshore and offshore wind of different inputs and different
\* EROIs, the offshore one below 1, after the deduction.
C7_Witness ==
    /\ Returned("world_grid_eroi")
    /\ model_params.remove_operational_e
    /\ \E i \in DOMAIN df :
          /\ IsFinite(df[i]["wind_onshore_eroi"]) /\ IsFinite(df[i]["wind_offshore_eroi"])
          /\ df[i]["wind_onshore_e_in"] # df[i]["wind_offshore_e_in"]
          /\ df[i]["wind_onshore_eroi"] # df[i]["wind_offshore_eroi"]
          /\ Lt(df[i]["wind_offshore_eroi"], Num(1))
          /\ df[i]["wind_eroi"] # MeanOfTwo(df[i]["wind_onshore_eroi"], df[i]["wind_offshore_eroi"])

---------------------------------------------------------------------------
(* C8: the Weibull parameters.                                             *)

Positive(x) == Gt(x, Num(0)) /\ IsFinite(x)

---------------------------------------------------------------------------
(* C9: the GHI overrides of world_rooftop_pv.                              *)

\* The grid's mean GHI of a country, null for a country the grid lacks.
GridMean(c) == IF c \in DOMAIN mean_ghi THEN mean_ghi[c] ELSE NaN

OverrideTargets ==
    {Singapore, Bahrain, ChineseTaipei, HongKongChina, Kosovo, NetherlandsAntilles, Gibraltar}

\* Lines 167-172 run from the last to the first on the joined table.
OverridesReversed(t) ==
    Override(Override(Override(Override(Override(
        Zero_ghi(t, {NetherlandsAntilles, Gibraltar}),
        Kosovo, Montenegro), HongKongChina, China), ChineseTaipei, China),
        Bahrain, Qatar), Singapore, Malaysia)

\* C9: when lines 167-172 have run, Singapore holds the grid's mean GHI of
\* Malaysia, Bahrain that of Qatar, Chinese Taipei and Hong Kong, China that
\* of China, Kosovo that of Montenegro, Netherlands Antilles and Gibraltar
\* hold 0, every other country holds its GHI of the join, and the same table
\* results from the assignments run in the reverse order.
C9_GhiOverrides ==
    (entry = "world_rooftop_pv" /\ Done(172)) =>
        /\ rt[Singapore]["GHI"] = GridMean(Malaysia)
        /\ rt[Bahrain]["GHI"] = GridMean(Qatar)
        /\ rt[ChineseTaipei]["GHI"] = GridMean(China)
        /\ rt[HongKongChina]["GHI"] = GridMean(China)
        /\ rt[Kosovo]["GHI"] = GridMean(Montenegro)
        /\ rt[NetherlandsAntilles]["GHI"] = Num(0)
        /\ rt[Gibraltar]["GHI"] = Num(0)
        /\ \A c \in (DOMAIN rt) \ OverrideTargets : rt[c]["GHI"] = GridMean(c)
        /\ At(174) => rt = OverridesReversed(Join_mean_ghi(rooftop_area, mean_ghi))

\* Malaysia is in the grid, its mean GHI the mean of two cells, and Singapore
\* holds it; the grid has no cell of China, and Chinese Taipei holds null.
C9_Witness ==
    /\ entry = "world_rooftop_pv" /\ Done(172)
    /\ Malaysia \in DOMAIN mean_ghi /\ China \notin DOMAIN mean_ghi
    /\ mean_ghi[Malaysia] = Q(5, 2)
    /\ rt[Singapore]["GHI"] = Q(5, 2)
    /\ rt[Malaysia]["GHI"] = Q(5, 2)
    /\ IsNaN(rt[ChineseTaipei]["GHI"])
    /\ rt[Gibraltar]["GHI"] = Num(0)

---------------------------------------------------------------------------
(* C10: the order of the column writes.                                    *)

\* The table that the statements lines[k..] make of table t.
RECURSIVE RunFrom(_, _, _, _)
RunFrom(lines, k, t, mp) ==
    IF k > Len(lines) THEN t
    ELSE LET u == Exec(lines[k], t, mp)
         IN  \* u = u makes TLC build the table once, not anew at each use
             IF u = u THEN RunFrom(lines, k + 1, u, mp) ELSE t

\* What world_grid_eroi returns for the table of the one cell i.
AloneResult(i) ==
    RunFrom(Program("world_grid_eroi"), 2, (i :> raw[i]), model_params)

\* C10: through world_grid and world_grid_eroi, no statement writes a column
\* that an earlier statement has read to derive another column; the columns
\* of the data file keep their values; and every cell of the returned table
\* is what the same cell gives when it is the only cell of the table.
C10_NoWriteAfterRead ==
    /\ (status = "running" /\ Line \in 27..158) => Writes(Line) \cap reads = {}
    /\ \A i \in DOMAIN df : \A c \in InputColumns : df[i][c] = raw[i][c]
    /\ Returned("world_grid_eroi") =>
          \A i \in DOMAIN df : df[i] = AloneResult(i)[i]

\* A returned table of two different cells, the in-place updates done.
C10_Witness ==
    /\ Returned("world_grid_eroi")
    /\ model_params.remove_operational_e
    /\ \E i, j \in DOMAIN df :
          /\ df[i]["wind_offshore_eroi"] # df[j]["wind_offshore_eroi"]
          /\ df[i]["pv_e"] # df[j]["pv_e"]
    /\ {"wind_onshore_e", "wind_sf_offshore", "pv_sf", "inputs_gw_offshore", "pv_e"}
          \subseteq reads

=============================================================================
